---- MODULE Spec2Model ----
(***************************************************************************)
(* Model of UVM_Tb_generator.py: the CSV parser (read_interface_csv), the  *)
(* directory bootstrap and the five generators the script runs in order,   *)
(* together with the output tree (files, README.txt) they write.           *)
(*                                                                         *)
(* Text is modelled as follows.  A character is a one-character string, a  *)
(* Python str is a sequence of characters.  A written line is a record     *)
(*   [t |-> the f-string's text with its {placeholders},                   *)
(*    a |-> the values substituted for the placeholders (strs),            *)
(*    n |-> the numbers substituted for the placeholders,                  *)
(*    i |-> the index of the interface record the line was written for,    *)
(*          0 for a line outside a per-interface loop]                     *)
(* and a file is the sequence of the lines written to it.  A backquote of   *)
(* the source text is written ' in t, a bullet *, an arrow ->, and a run   *)
(* of fixed lines between two substitutions is written as one line.        *)
(***************************************************************************)
EXTENDS Integers, Sequences, FiniteSets, TLC

VARIABLES input, pc, run, config, dirs, files, readme, log, emitted,
          prev_files, prev_readme

vars == <<input, pc, run, config, dirs, files, readme, log, emitted,
          prev_files, prev_readme>>

(***************************************************************************)
(* Bounds of the model.                                                    *)
(***************************************************************************)
MaxRows == 2
MaxRuns == 2

(***************************************************************************)
(* Python str operations.                                                  *)
(***************************************************************************)
None == <<"None">>

Truthy(s) == s # None /\ s # <<>>

UpperLetters ==
  <<"A","B","C","D","E","F","G","H","I","J","K","L","M",
    "N","O","P","Q","R","S","T","U","V","W","X","Y","Z">>

LowerLetters ==
  <<"a","b","c","d","e","f","g","h","i","j","k","l","m",
    "n","o","p","q","r","s","t","u","v","w","x","y","z">>

LowerChar(c) ==
  IF \E k \in 1..26 : UpperLetters[k] = c
  THEN LowerLetters[CHOOSE k \in 1..26 : UpperLetters[k] = c]
  ELSE c

UpperChar(c) ==
  IF \E k \in 1..26 : LowerLetters[k] = c
  THEN UpperLetters[CHOOSE k \in 1..26 : LowerLetters[k] = c]
  ELSE c

Lower(s) == [k \in 1..Len(s) |-> LowerChar(s[k])]

Upper(s) == [k \in 1..Len(s) |-> UpperChar(s[k])]

Whitespace == {" ", "\t"}

RECURSIVE LStrip(_)
LStrip(s) ==
  IF s # <<>> /\ Head(s) \in Whitespace THEN LStrip(Tail(s)) ELSE s

RECURSIVE RStrip(_)
RStrip(s) ==
  IF s # <<>> /\ s[Len(s)] \in Whitespace
  THEN RStrip(SubSeq(s, 1, Len(s) - 1))
  ELSE s

Strip(s) == RStrip(LStrip(s))

\* s.replace(" ", "_")
ReplaceSpace(s) == [k \in 1..Len(s) |-> IF s[k] = " " THEN "_" ELSE s[k]]

HasComma(s) == \E k \in 1..Len(s) : s[k] = ","

\* the first field of s.split(',')
RECURSIVE SplitFirst(_)
SplitFirst(s) ==
  IF s = <<>> \/ Head(s) = "," THEN <<>>
  ELSE <<Head(s)>> \o SplitFirst(Tail(s))

\* what follows the first comma of s (s has one)
RECURSIVE AfterComma(_)
AfterComma(s) ==
  IF Head(s) = "," THEN Tail(s) ELSE AfterComma(Tail(s))

\* the second field of s.split(','), for an s that has a comma
SplitSecond(s) == SplitFirst(AfterComma(s))

Digits == <<"0","1","2","3","4","5","6","7","8","9">>

IsDigit(c) == \E k \in 1..10 : Digits[k] = c

DigitValue(c) == (CHOOSE k \in 1..10 : Digits[k] = c) - 1

\* the literal after Python's int() has stripped the blanks and the sign
IntBody(s) ==
  LET t == Strip(s)
  IN  IF t # <<>> /\ Head(t) \in {"+", "-"} THEN Tail(t) ELSE t

\* int(s) succeeds: digits, single underscores allowed between digits
IsIntLiteral(s) ==
  LET b == IntBody(s)
  IN  /\ b # <<>>
      /\ IsDigit(b[1])
      /\ IsDigit(b[Len(b)])
      /\ \A k \in 1..Len(b) : IsDigit(b[k]) \/ b[k] = "_"
      /\ \A k \in 1..(Len(b) - 1) : ~(b[k] = "_" /\ b[k + 1] = "_")

RECURSIVE DigitsValue(_, _)
DigitsValue(b, acc) ==
  IF b = <<>> THEN acc
  ELSE IF Head(b) = "_" THEN DigitsValue(Tail(b), acc)
  ELSE DigitsValue(Tail(b), 10 * acc + DigitValue(Head(b)))

\* int(s), for an s with IsIntLiteral(s)
IntValue(s) ==
  LET t == Strip(s)
      v == DigitsValue(IntBody(s), 0)
  IN  IF Head(t) = "-" THEN 0 - v ELSE v

(***************************************************************************)
(* read_interface_csv: rows of raw cells to the configuration dictionary.  *)
(***************************************************************************)
NonBlank(cell) == Strip(cell) # <<>>

\* row = [cell.strip() for cell in row if cell.strip()]
CleanRow(row) ==
  LET kept == SelectSeq(row, NonBlank)
  IN  [k \in 1..Len(kept) |-> Strip(kept[k])]

\* key = row[0].upper().replace(" ", "_")
RowKey(row) == ReplaceSpace(Upper(row[1]))

KEY_DUT_NAME == <<"D","U","T","_","N","A","M","E">>
KEY_NUM_INTF == <<"N","U","M","_","I","N","T","F">>
KEY_INTF == <<"I","N","T","F">>

RST_TYPE_HIGH == <<"1">>
RST_TYPE_LOW == <<"0">>

\* the interface dictionary built from a cleaned INTF row of >= 5 fields
ParseIntf(row) ==
  LET base == [name |-> row[2], mode |-> row[3], speed |-> row[4], clk |-> row[5]]
  IN  IF Len(row) >= 6 /\ HasComma(row[6])
      THEN [name |-> base.name, mode |-> base.mode, speed |-> base.speed,
            clk |-> base.clk,
            rst |-> Strip(SplitFirst(row[6])),
            rst_type |-> Strip(SplitSecond(row[6]))]
      ELSE IF Len(row) >= 6
      THEN [name |-> base.name, mode |-> base.mode, speed |-> base.speed,
            clk |-> base.clk,
            rst |-> Strip(row[6]),
            rst_type |-> RST_TYPE_HIGH]
      ELSE [name |-> base.name, mode |-> base.mode, speed |-> base.speed,
            clk |-> base.clk,
            rst |-> None,
            rst_type |-> None]

EmptyConfig == [dut_name |-> None, num_interfaces |-> <<>>, interfaces |-> <<>>]

\* a slip: the ValueError of a NUM_INTF row is caught and the row is passed over
ParseRow_Caught(acc, raw) ==
  LET row == CleanRow(raw)
      cfg == acc.cfg
  IN  IF ~acc.ok \/ row = <<>> THEN acc
      ELSE IF RowKey(row) = KEY_DUT_NAME /\ Len(row) >= 2
      THEN [ok |-> TRUE,
            cfg |-> [cfg EXCEPT !.dut_name = row[2]]]
      ELSE IF RowKey(row) = KEY_NUM_INTF /\ Len(row) >= 2
      THEN IF IsIntLiteral(row[2])
           THEN [ok |-> TRUE,
                 cfg |-> [cfg EXCEPT !.num_interfaces = <<IntValue(row[2])>>]]
           ELSE acc
      ELSE IF RowKey(row) = KEY_INTF /\ Len(row) >= 5
      THEN [ok |-> TRUE,
            cfg |-> [cfg EXCEPT !.interfaces = Append(@, ParseIntf(row))]]
      ELSE acc

\* a slip: an INTF row whose name is already in the list is dropped
ParseRow_Dedup(acc, raw) ==
  LET row == CleanRow(raw)
      cfg == acc.cfg
  IN  IF ~acc.ok \/ row = <<>> THEN acc
      ELSE IF RowKey(row) = KEY_DUT_NAME /\ Len(row) >= 2
      THEN [ok |-> TRUE,
            cfg |-> [cfg EXCEPT !.dut_name = row[2]]]
      ELSE IF RowKey(row) = KEY_NUM_INTF /\ Len(row) >= 2
      THEN IF IsIntLiteral(row[2])
           THEN [ok |-> TRUE,
                 cfg |-> [cfg EXCEPT !.num_interfaces = <<IntValue(row[2])>>]]
           ELSE [ok |-> FALSE, cfg |-> cfg]
      ELSE IF /\ RowKey(row) = KEY_INTF /\ Len(row) >= 5
              /\ \A k \in 1..Len(cfg.interfaces) : cfg.interfaces[k].name # row[2]
      THEN [ok |-> TRUE,
            cfg |-> [cfg EXCEPT !.interfaces = Append(@, ParseIntf(row))]]
      ELSE acc

\* one iteration of the loop over the rows; ok = FALSE is the ValueError
\* that int() raises and nothing catches
ParseRow(acc, raw) ==
  LET row == CleanRow(raw)
      cfg == acc.cfg
  IN  IF ~acc.ok \/ row = <<>> THEN acc
      ELSE IF RowKey(row) = KEY_DUT_NAME /\ Len(row) >= 2
      THEN [ok |-> TRUE,
            cfg |-> [cfg EXCEPT !.dut_name = row[2]]]
      ELSE IF RowKey(row) = KEY_NUM_INTF /\ Len(row) >= 2
      THEN IF IsIntLiteral(row[2])
           THEN [ok |-> TRUE,
                 cfg |-> [cfg EXCEPT !.num_interfaces = <<IntValue(row[2])>>]]
           ELSE [ok |-> FALSE, cfg |-> cfg]
      ELSE IF RowKey(row) = KEY_INTF /\ Len(row) >= 5
      THEN [ok |-> TRUE,
            cfg |-> [cfg EXCEPT !.interfaces = Append(@, ParseIntf(row))]]
      ELSE acc

RECURSIVE ParseRows(_, _)
ParseRows(acc, rows) ==
  IF rows = <<>> THEN acc
  ELSE ParseRows(ParseRow(acc, Head(rows)), Tail(rows))

read_interface_csv(rows) == ParseRows([ok |-> TRUE, cfg |-> EmptyConfig], rows)

(***************************************************************************)
(* Written text: lines, files and file-system operations.                  *)
(***************************************************************************)
L(t, a, i) == [t |-> t, a |-> a, n |-> <<>>, i |-> i]

LN(t, a, n, i) == [t |-> t, a |-> a, n |-> n, i |-> i]

\* the lines Op(s[k], k) writes for k = from..Len(s), in order
RECURSIVE ForEach(_, _, _)
ForEach(Op(_, _), s, from) ==
  IF from > Len(s) THEN <<>>
  ELSE Op(s[from], from) \o ForEach(Op, s, from + 1)

Path(dir, sub, name, ext) == [dir |-> dir, sub |-> sub, name |-> name, ext |-> ext]

\* os.makedirs(d, exist_ok=True)
MkdirOp(gen, i, dir, sub) ==
  [gen |-> gen, i |-> i, kind |-> "mkdir", path |-> Path(dir, sub, <<>>, ""),
   content |-> <<>>]

\* with open(path, "w") as f: f.write(content)
WriteOp(gen, i, path, content) ==
  [gen |-> gen, i |-> i, kind |-> "write", path |-> path, content |-> content]

\* a slip: the file is opened for appending
OpenW_Append(fs, path, content) ==
  (path :> ((IF path \in DOMAIN fs THEN fs[path] ELSE <<>>) \o content)) @@ fs

\* open(path, "w"): the file holds what was written, whatever it held
OpenW(fs, path, content) == (path :> content) @@ fs

\* the output tree after the file-system operations ops, in order
RECURSIVE ApplyFiles(_, _)
ApplyFiles(fs, ops) ==
  IF ops = <<>> THEN fs
  ELSE ApplyFiles(IF Head(ops).kind = "write"
                  THEN OpenW(fs, Head(ops).path, Head(ops).content)
                  ELSE fs,
                  Tail(ops))

RECURSIVE ApplyDirs(_, _)
ApplyDirs(ds, ops) ==
  IF ops = <<>> THEN ds
  ELSE ApplyDirs(IF Head(ops).kind = "mkdir"
                 THEN ds \cup {[dir |-> Head(ops).path.dir, sub |-> Head(ops).path.sub]}
                 ELSE ds,
                 Tail(ops))

\* open(readme_path, "w") and open(readme_path, "a")
ReadmeW(old, text) == text

ReadmeA(old, text) == old \o text

(***************************************************************************)
(* Fixed pieces of identifiers.                                            *)
(***************************************************************************)
NIL == <<"n","i","l">>
S_dut == <<"d","u","t">>
S_u == <<"u","_">>
S_top == <<"t","o","p">>
S_base_test == <<"_","b","a","s","e","_","t","e","s","t">>
S_env == <<"_","e","n","v">>
S_base_seq == <<"_","b","a","s","e","_","s","e","q">>
S_sbd == <<"_","s","b","d">>
S_h == <<"_","h">>
S_agent == <<"_","a","g","e","n","t">>
S_drv == <<"_","d","r","v">>
S_sqr == <<"_","s","q","r">>
S_mon == <<"_","m","o","n">>
S_cov == <<"_","c","o","v">>
S_if == <<"_","i","f">>
S_pif == <<"_","p","i","f">>
S_vif == <<"_","v","i","f">>
S_tx == <<"_","t","x">>
S_ap_h == <<"_","a","p","_","h">>
S_if_inst == <<"_","i","f","_","i","n","s","t">>

\* x and x.lower() != "nil"
Defined(x) == Truthy(x) /\ Lower(x) # NIL

\* config.get("dut_name", default)
DutNameOr(cfg, default) == IF cfg.dut_name = None THEN default ELSE cfg.dut_name

(***************************************************************************)
(* The f-strings of the generators that the properties below refer to.     *)
(***************************************************************************)
T_TOP_RST_ASSERT ==
  "    {rst} = {assert_val};"

T_TOP_RST_DEASSERT ==
  "    {rst} = {deassert_val};"

T_TOP_INTF_INST ==
  "  {name.lower()}_if {inst_name}();  // TODO: Create {name} interface files"

T_TOP_CONFIG_DB ==
  "    uvm_config_db#(virtual {iface_type})::set(null, \"*\", \"vif\", {inst_name});"

T_TOP_DUT_INST ==
  "  {dut_name} u_{dut_name.lower()} ("

T_TOP_RUN_TEST ==
  "    run_test(\"{test_name}\");"

T_TOP_SUMMARY ==
  "top.sv generation summary\n"

T_TEST_CLASS ==
  "class {test_class} extends uvm_test;"

T_TEST_ENV_DECL ==
  "  {env_class} {env_class}_h;"

T_TEST_SEQ_CREATE ==
  "    {seq_class} seq = {seq_class}::type_id::create(\"seq\");"

T_TEST_SUMMARY ==
  "{test_class}.sv Summary"

T_TEST_SKIP ==
  "No DUT name found in configuration. Skipping UVM test generation."

T_ENV_CLASS ==
  "class {env_class} extends uvm_env;"

T_ENV_AGENT_DECL ==
  "	{agent_class} {inst};"

T_ENV_AGENT_CREATE ==
  "		{inst} = {agent_class}::type_id::create(\"{inst}\", this);"

T_ENV_CONNECT ==
  "		//{inst}.{name}_h.{name}_ap_h.connect({sbd_class_inst_name}.analysis_export);"

T_ENV_SUMMARY ==
  "{env_class}.sv Summary"

T_ENV_SKIP ==
  "No DUT name provided. Cannot generate env."

T_AGENT_HEADER ==
  "//UVM agent: {agent_class}"

T_AGENT_CLASS ==
  "class {agent_class} extends uvm_agent;"

T_AGENT_DRV_DECL ==
  "{drv_name} {drv_inst};"

T_AGENT_SQR_DECL ==
  "{sqr_name} {sqr_inst};"

T_AGENT_MON_DECL ==
  "{mon_name} {mon_inst};"

T_AGENT_COV_DECL ==
  "{cov_name} {cov_inst};"

T_AGENT_DRV_CREATE ==
  "  {drv_inst} = {drv_name}::type_id::create(\"{drv_inst}\", this);"

T_AGENT_SQR_CREATE ==
  "  {sqr_inst} = {sqr_name}::type_id::create(\"{sqr_inst}\", this);"

T_AGENT_DRV_CONNECT ==
  "  {drv_inst}.seq_item_port.connect({sqr_inst}.seq_item_export);"

T_AGENT_MON_CONNECT ==
  "  {mon_inst}.{name}_ap_h.connect({cov_inst}.analysis_export);"

T_AGENT_SUMMARY ==
  "Agent & Component Summary"

T_COMP_HEADER ==
  "//UVM {suffix}: {class_name}"

T_COMP_CLASS ==
  "class {class_name} extends {base_class};"

T_COMP_CLASS_TX ==
  "class {class_name} extends {base_class}#({name}_tx);"

T_COMP_TYPEDEF ==
  "typedef {base_class}#({name}_tx) {class_name};"

T_COMP_VIF_DECL ==
  "virtual {name}_if {name}_vif;"

T_COMP_VIF_GET ==
  "  if(!uvm_config_db#(virtual {name}_if)::get(this,\"\",\"vif\",{name}_vif))"

T_MON_AP_DECL ==
  "uvm_analysis_port#({name}_tx) {name}_ap_h;"

T_SEQ_CLASS ==
  "class {seq_class} extends uvm_sequence;"

T_SEQ_SUMMARY ==
  "\n{seq_class}.sv Summary"

T_SEQ_SKIP ==
  "No DUT name found in config. Skipping base sequence generation."

UVM_MONITOR == <<"u","v","m","_","m","o","n","i","t","o","r">>

UVM_SUBSCRIBER == <<"u","v","m","_","s","u","b","s","c","r","i","b","e","r">>

UVM_DRIVER == <<"u","v","m","_","d","r","i","v","e","r">>

UVM_SEQUENCER == <<"u","v","m","_","s","e","q","u","e","n","c","e","r">>

(***************************************************************************)
(* generate_top_sv_from_cfg: verif/TOP/top.sv and the first README section.*)
(***************************************************************************)
TopPath == Path("verif/TOP", <<>>, S_top, ".sv")

TopDeclLines(intf, i) ==
  (IF Defined(intf.clk) THEN <<L("  logic {clk};", <<intf.clk>>, i)>> ELSE <<>>)
  \o (IF Defined(intf.rst) THEN <<L("  logic {rst};", <<intf.rst>>, i)>> ELSE <<>>)

\* a slip: the period is cut off after the third decimal place
PeriodMilli_Trunc(speed) == 1000000 \div speed

\* round(1000 / speed, 3) in thousandths of a ns: the nearest thousandth,
\* an exact tie to the even one
PeriodMilli(speed) ==
  LET q == 1000000 \div speed
      r == 1000000 % speed
  IN  IF 2 * r < speed THEN q
      ELSE IF 2 * r > speed THEN q + 1
      ELSE IF q % 2 = 0 THEN q ELSE q + 1

\* the speeds up to 30 MHz whose odd period in thousandths halves to the
\* thousandth above: round() decides on the binary value of period_ns / 2
HalfTieUp == {3, 6, 9, 11, 13, 14, 15, 24}

\* round(period_ns / 2, 3) in thousandths of a ns
HalfPeriodMilli(speed) ==
  LET pm == PeriodMilli(speed)
  IN  IF pm % 2 = 0 THEN pm \div 2
      ELSE IF speed \in HalfTieUp THEN (pm + 1) \div 2
      ELSE (pm - 1) \div 2

\* a slip: only the frequency 0 is skipped, a negative one is not
TopClockLines_ZeroOnly(intf, i) ==
  IF ~Truthy(intf.clk) \/ Lower(intf.clk) = NIL
     \/ ~Truthy(intf.speed) \/ Lower(intf.speed) = NIL
  THEN <<>>
  ELSE IF ~IsIntLiteral(intf.speed) THEN <<>>
  ELSE IF IntValue(intf.speed) = 0 THEN <<>>
  ELSE LET speed == IntValue(intf.speed)
       IN  << LN("  // {clk} clock generation at {speed} MHz (~{period_ns}ns)",
                 <<intf.clk>>, <<speed, IF speed > 0 THEN PeriodMilli(speed) ELSE 0>>, i),
              L("  initial {clk} = 0;", <<intf.clk>>, i),
              LN("  always #{half_period} {clk} = ~{clk};\n",
                 <<intf.clk, intf.clk>>,
                 <<IF speed > 0 THEN HalfPeriodMilli(speed) ELSE 0>>, i) >>

TopClockLines(intf, i) ==
  IF ~Truthy(intf.clk) \/ Lower(intf.clk) = NIL
     \/ ~Truthy(intf.speed) \/ Lower(intf.speed) = NIL
  THEN <<>>
  ELSE IF ~IsIntLiteral(intf.speed) THEN <<>>
  ELSE IF IntValue(intf.speed) <= 0 THEN <<>>
  ELSE LET speed == IntValue(intf.speed)
       IN  << LN("  // {clk} clock generation at {speed} MHz (~{period_ns}ns)",
                 <<intf.clk>>, <<speed, PeriodMilli(speed)>>, i),
              L("  initial {clk} = 0;", <<intf.clk>>, i),
              LN("  always #{half_period} {clk} = ~{clk};\n",
                 <<intf.clk, intf.clk>>, <<HalfPeriodMilli(speed)>>, i) >>

\* active_high = rst_type == "1"
ActiveHigh(rst_type) == rst_type = RST_TYPE_HIGH

TopResetLines(intf, i) ==
  IF ~Truthy(intf.clk) \/ Lower(intf.clk) = NIL THEN <<>>
  ELSE IF ~Truthy(intf.rst) \/ Lower(intf.rst) = NIL THEN <<>>
  ELSE IF ~Truthy(intf.rst_type) THEN <<>>
  ELSE LET active_high == ActiveHigh(intf.rst_type)
           assert_val == IF active_high THEN <<"1">> ELSE <<"0">>
           deassert_val == IF active_high THEN <<"0">> ELSE <<"1">>
       IN  << L("  // {rst} reset pulse using @{clk}, active {'high' if active_high else 'low'}",
                <<intf.rst, intf.clk,
                  IF active_high THEN <<"h","i","g","h">> ELSE <<"l","o","w">> >>, i),
              L("  initial begin", <<>>, i),
              L(T_TOP_RST_ASSERT, <<intf.rst, assert_val>>, i),
              L("    @(posedge {clk});", <<intf.clk>>, i),
              L(T_TOP_RST_DEASSERT, <<intf.rst, deassert_val>>, i),
              L("  end\n", <<>>, i) >>

TopIntfInstLines(intf, i) ==
  IF Defined(intf.name)
  THEN <<L(T_TOP_INTF_INST,
           <<Lower(intf.name) \o S_if, Lower(intf.name) \o S_pif, intf.name>>, i)>>
  ELSE <<>>

\* the key of uvm_config_db::set() in top.sv
KEY_VIF_SET == <<"v","i","f">>

\* the key of uvm_config_db::get() in the driver and in the monitor
KEY_VIF_GET == <<"v","i","f">>

\* a slip: the interface type is built from the name as it was read
TopConfigDbLines_NoLower(intf, i) ==
  IF Defined(intf.name)
  THEN <<L(T_TOP_CONFIG_DB,
           <<intf.name \o S_if, Lower(intf.name) \o S_pif>>, i)>>
  ELSE <<>>

TopConfigDbLines(intf, i) ==
  IF Defined(intf.name)
  THEN <<L(T_TOP_CONFIG_DB,
           <<Lower(intf.name) \o S_if, Lower(intf.name) \o S_pif>>, i)>>
  ELSE <<>>

TopSvLines(cfg) ==
  LET dut_name == DutNameOr(cfg, S_dut)
      test_name == Lower(dut_name) \o S_base_test
  IN  <<L("module top;\n", <<>>, 0)>>
      \o ForEach(TopDeclLines, cfg.interfaces, 1)
      \o <<L("", <<>>, 0)>>
      \o ForEach(TopClockLines, cfg.interfaces, 1)
      \o ForEach(TopResetLines, cfg.interfaces, 1)
      \o <<L("  // Interface Instantiations", <<>>, 0)>>
      \o ForEach(TopIntfInstLines, cfg.interfaces, 1)
      \o << L("", <<>>, 0),
            L("  // DUT instantiation", <<>>, 0),
            L(T_TOP_DUT_INST, <<dut_name, S_u \o Lower(dut_name)>>, 0),
            L("    // TODO: Connect ports using pif handles ", <<>>, 0),
            L("  );\n", <<>>, 0),
            L("  // UVM run_test() call", <<>>, 0),
            L("  initial begin", <<>>, 0),
            L(T_TOP_RUN_TEST, <<test_name>>, 0),
            L("  end\n", <<>>, 0),
            L("  // Passing interfaces to UVM via uvm_config_db", <<>>, 0),
            L("  initial begin", <<>>, 0) >>
      \o ForEach(TopConfigDbLines, cfg.interfaces, 1)
      \o << L("  end\n", <<>>, 0),
            L("endmodule", <<>>, 0) >>

TopReadmeClockLines(intf, i) ==
  IF Defined(intf.clk)
  THEN <<L("    * {clk}  ({speed_str})",
           <<intf.clk, IF Truthy(intf.speed) THEN intf.speed ELSE <<"d","e","f","a","u","l","t">> >>, i)>>
  ELSE <<>>

TopReadmeResetLines(intf, i) ==
  IF Truthy(intf.rst) /\ Truthy(intf.clk)
  THEN <<L("    * {rst}  ({type_str}) driven by {clk}",
           <<intf.rst,
             IF intf.rst_type = RST_TYPE_HIGH THEN <<"a","c","t","i","v","e"," ","h","i","g","h">>
             ELSE IF intf.rst_type = RST_TYPE_LOW THEN <<"a","c","t","i","v","e"," ","l","o","w">>
             ELSE <<"u","n","s","p","e","c","i","f","i","e","d">>,
             intf.clk>>, i)>>
  ELSE <<>>

TopReadmeIntfLines(intf, i) ==
  IF Truthy(intf.name)
  THEN <<L("    * {name.lower()}_if {name.lower()}_if_inst();",
           <<Lower(intf.name) \o S_if, Lower(intf.name) \o S_if_inst>>, i)>>
  ELSE <<>>

TopReadmeTodoLines(intf, i) ==
  IF Truthy(intf.name)
  THEN <<L("    * Connect '{name.lower()}_if_inst' to DUT",
           <<Lower(intf.name) \o S_if_inst>>, i)>>
  ELSE <<>>

TopReadmeLines(cfg) ==
  LET dut_name == DutNameOr(cfg, S_dut)
      intfs == cfg.interfaces
  IN  << L(T_TOP_SUMMARY, <<>>, 0),
         L("DUT Name             : {dut_name}", <<dut_name>>, 0),
         LN("Number of Interfaces : {config.get('num_interfaces')}\n",
            <<>>, cfg.num_interfaces, 0),
         L("top.sv contents:", <<>>, 0),
         L("- 'module top;' with DUT '{dut_name}' instantiated", <<dut_name>>, 0) >>
      \o (IF \E k \in 1..Len(intfs) : Truthy(intfs[k].clk)
          THEN <<L("- Clock signal declarations and generation:", <<>>, 0)>>
               \o ForEach(TopReadmeClockLines, intfs, 1)
          ELSE <<>>)
      \o (IF \E k \in 1..Len(intfs) : Truthy(intfs[k].rst)
          THEN <<L("- Reset pulse logic based on @posedge clk:", <<>>, 0)>>
               \o ForEach(TopReadmeResetLines, intfs, 1)
          ELSE <<>>)
      \o <<L("- Interface instantiations:", <<>>, 0)>>
      \o ForEach(TopReadmeIntfLines, intfs, 1)
      \o << L("- uvm_config_db set() calls to pass virtual interfaces", <<>>, 0),
            L("- run_test(\"{dut_name.lower()}_base_test\")' to launch simulation\n",
              <<Lower(dut_name) \o S_base_test>>, 0),
            L("TODOs for User To code in top.sv:", <<>>, 0),
            L("- Connect interface instances to DUT ports:", <<>>, 0) >>
      \o ForEach(TopReadmeTodoLines, intfs, 1)
      \o << L("- Define SystemVerilog interface files", <<>>, 0),
            L("\n-----------------------------------------------------------", <<>>, 0) >>

TopOps(cfg) ==
  << WriteOp("top", 0, TopPath, TopSvLines(cfg)),
     MkdirOp("top", 0, "verif/SIM", <<>>) >>

\* a slip: the document is opened for appending
TopReadme_Append(old, cfg) == ReadmeA(old, TopReadmeLines(cfg))

\* with open(readme_path, "w") as readme_file: the section replaces the document
TopReadme(old, cfg) == ReadmeW(old, TopReadmeLines(cfg))

TopLog(cfg) ==
  << L("Generated: {top_sv_path}\n", <<>>, 0),
     L("Refer to README.txt for a detailed summary of top.sv file:", <<>>, 0),
     L("   -> {readme_path}", <<>>, 0),
     L("----------------------------------------------------------------------------", <<>>, 0) >>

(***************************************************************************)
(* generate_uvm_test: verif/TEST_LIB/<dut>_base_test.sv and its section.   *)
(***************************************************************************)
\* config.get("dut_name", "").strip().lower()
DutStem(cfg) == Lower(Strip(DutNameOr(cfg, <<>>)))

TestPath(cfg) == Path("verif/TEST_LIB", <<>>, DutStem(cfg) \o S_base_test, ".sv")

TestSvLines(cfg) ==
  LET test_class == DutStem(cfg) \o S_base_test
      env_class == DutStem(cfg) \o S_env
      seq_class == DutStem(cfg) \o S_base_seq
  IN  << L("// UVM Test: {test_class}", <<test_class>>, 0),
         L(T_TEST_CLASS, <<test_class>>, 0),
         L("  'uvm_component_utils({test_class})", <<test_class>>, 0),
         L(T_TEST_ENV_DECL, <<env_class, env_class \o S_h>>, 0),
         L("  function new(string name = \"{test_class}\", uvm_component parent = null);",
           <<test_class>>, 0),
         L("  virtual function void build_phase(uvm_phase phase);", <<>>, 0),
         L("    {env_class}_h = {env_class}::type_id::create(\"{env_class}_h\", this);",
           <<env_class \o S_h, env_class, env_class \o S_h>>, 0),
         L("  virtual task run_phase(uvm_phase phase);", <<>>, 0),
         L(T_TEST_SEQ_CREATE,
           <<seq_class, seq_class>>, 0),
         L("    phase.raise_objection(this);", <<>>, 0),
         L("    // TODO: Update sequencer path if not {env_class}_h.sqr",
           <<env_class \o S_h>>, 0),
         L("    seq.start({env_class}_h.sqr);", <<env_class \o S_h>>, 0),
         L("    phase.phase_done.set_drain_time(this,1000);", <<>>, 0),
         L("    phase.drop_objection(this);", <<>>, 0),
         L("endclass : {test_class}", <<test_class>>, 0) >>

TestReadmeLines(cfg) ==
  LET test_class == DutStem(cfg) \o S_base_test
      env_class == DutStem(cfg) \o S_env
      seq_class == DutStem(cfg) \o S_base_seq
  IN  << L(T_TEST_SUMMARY, <<test_class>>, 0),
         L("- class {test_class} extends uvm_test", <<test_class>>, 0),
         L("- Factory registered using 'uvm_component_utils({test_class})'",
           <<test_class>>, 0),
         L("- build_phase(): creates '{env_class}'", <<env_class>>, 0),
         L("    - Creates '{seq_class}'", <<seq_class>>, 0),
         L("    - Calls 'start()' on '{env_class}_h.sqr'", <<env_class \o S_h>>, 0),
         L("------------------------------------------------------------------------",
           <<>>, 0) >>

\* a slip: no early return without a DUT name
TestOps_NoSkip(cfg) ==
  << MkdirOp("test", 0, "verif/TEST_LIB", <<>>),
     MkdirOp("test", 0, "verif/SIM", <<>>),
     WriteOp("test", 0, TestPath(cfg), TestSvLines(cfg)) >>

TestOps(cfg) ==
  IF ~Truthy(DutStem(cfg)) THEN <<>>
  ELSE << MkdirOp("test", 0, "verif/TEST_LIB", <<>>),
          MkdirOp("test", 0, "verif/SIM", <<>>),
          WriteOp("test", 0, TestPath(cfg), TestSvLines(cfg)) >>

\* a slip: the document is opened for writing
TestReadme_Overwrite(old, cfg) ==
  IF ~Truthy(DutStem(cfg)) THEN old
  ELSE ReadmeW(old, TestReadmeLines(cfg))

\* a slip: the section is written before the early return
TestReadme_Always(old, cfg) == ReadmeA(old, TestReadmeLines(cfg))

\* with open(readme_path, "a") as rf: rf.write(summary)
TestReadme(old, cfg) ==
  IF ~Truthy(DutStem(cfg)) THEN old
  ELSE ReadmeA(old, TestReadmeLines(cfg))

TestLog(cfg) ==
  IF ~Truthy(DutStem(cfg))
  THEN <<L(T_TEST_SKIP, <<>>, 0)>>
  ELSE << L("Generated: {test_file_path}", <<>>, 0),
          L("\nRefer to README.txt for a detailed summary of top.sv file:", <<>>, 0),
          L("   -> {readme_path}", <<>>, 0),
          L("----------------------------------------------------------------------------",
            <<>>, 0) >>

(***************************************************************************)
(* generate_uvm_env: verif/ENV/<dut>_env.sv and its section.               *)
(***************************************************************************)
EnvPath(cfg) == Path("verif/ENV", <<>>, DutStem(cfg) \o S_env, ".sv")

\* intf.get("name", "if").lower(): every parsed record has the key
EnvName(intf) == Lower(intf.name)

EnvDeclLines(intf, i) ==
  LET agent_class == EnvName(intf) \o S_agent
      inst == agent_class \o S_h
  IN  <<L(T_ENV_AGENT_DECL, <<agent_class, inst>>, i)>>

EnvBuildLines(intf, i) ==
  LET agent_class == EnvName(intf) \o S_agent
      inst == agent_class \o S_h
  IN  <<L(T_ENV_AGENT_CREATE,
          <<inst, agent_class, inst>>, i)>>

EnvConnectLines(cfg, intf, i) ==
  LET name == EnvName(intf)
      inst == (name \o S_agent) \o S_h
      sbd_class_inst_name == (DutStem(cfg) \o S_sbd) \o S_h
  IN  << L("  		//TODO - Check the SBD connection", <<>>, i),
         L(T_ENV_CONNECT,
           <<inst, name \o S_h, name \o S_ap_h, sbd_class_inst_name>>, i) >>

EnvSvLines(cfg) ==
  LET env_class == DutStem(cfg) \o S_env
      sbd_class_name == DutStem(cfg) \o S_sbd
      sbd_class_inst_name == sbd_class_name \o S_h
      Connect(intf, i) == EnvConnectLines(cfg, intf, i)
  IN  << L("// UVM Environment: {env_class}", <<env_class>>, 0),
         L(T_ENV_CLASS, <<env_class>>, 0),
         L("	'uvm_component_utils({env_class})", <<env_class>>, 0),
         L("	//Agents instantiation", <<>>, 0) >>
      \o ForEach(EnvDeclLines, cfg.interfaces, 1)
      \o << L("	//Scoreboard instantiation", <<>>, 0),
            L("	//{sbd_inst};", <<sbd_class_name, sbd_class_inst_name>>, 0),
            L("	function new(string name = \"{env_class}\", uvm_component parent = null);",
              <<env_class>>, 0),
            L("	virtual function void build_phase(uvm_phase phase);", <<>>, 0) >>
      \o ForEach(EnvBuildLines, cfg.interfaces, 1)
      \o << L("		//{sbd_class_inst_name} = {sbd_class_name}::type_id::create(\"{sbd_class_inst_name}\", this);",
              <<sbd_class_inst_name, sbd_class_name, sbd_class_inst_name>>, 0),
            L("	virtual function void connect_phase(uvm_phase phase);", <<>>, 0) >>
      \o ForEach(Connect, cfg.interfaces, 1)
      \o << L("endclass : {env_class}", <<env_class>>, 0) >>

EnvReadmeAgentLines(intf, i) ==
  <<L("        - {intf.get('name', 'if').lower()}_agent ({intf.get('name', '').upper()} protocol)",
      <<Lower(intf.name) \o S_agent, Upper(intf.name)>>, i)>>

EnvReadmeLines(cfg) ==
  LET env_class == DutStem(cfg) \o S_env
  IN  << L(T_ENV_SUMMARY, <<env_class>>, 0),
         L(" - class {env_class} extends uvm_env", <<env_class>>, 0),
         L(" - One agent per interface: {[intf.get('name', 'IF') for intf in interfaces]}",
           [k \in 1..Len(cfg.interfaces) |-> cfg.interfaces[k].name], 0),
         L(" Instantiated Components:", <<>>, 0) >>
      \o ForEach(EnvReadmeAgentLines, cfg.interfaces, 1)
      \o << L(" - m_sbd : scoreboard", <<>>, 0),
            L(" - check the agent to SBD connection", <<>>, 0),
            L(" ------------------------------------------------------------------------",
              <<>>, 0) >>

EnvOps(cfg) ==
  IF ~Truthy(DutStem(cfg)) THEN <<>>
  ELSE << MkdirOp("env", 0, "verif/ENV", <<>>),
          WriteOp("env", 0, EnvPath(cfg), EnvSvLines(cfg)),
          MkdirOp("env", 0, "verif/SIM", <<>>) >>

\* with open(readme_path, "a") as rf: rf.write(summary)
EnvReadme(old, cfg) ==
  IF ~Truthy(DutStem(cfg)) THEN old
  ELSE ReadmeA(old, EnvReadmeLines(cfg))

EnvLog(cfg) ==
  IF ~Truthy(DutStem(cfg))
  THEN <<L(T_ENV_SKIP, <<>>, 0)>>
  ELSE << L("Generated : {env_file_path}", <<>>, 0),
          L("\nRefer to README.txt for a detailed summary of top.sv file:", <<>>, 0),
          L("   -> {readme_path}", <<>>, 0),
          L("----------------------------------------------------------------------------",
            <<>>, 0) >>

(***************************************************************************)
(* create_full_agent_and_components: per interface of mode M or S, the     *)
(* directory verif/ENV/AGENTS/<name>/ with the agent class and one file    *)
(* per sub-component, and the T_AGENT_SUMMARY section.         *)
(***************************************************************************)
MODE_M == <<"M">>
MODE_S == <<"S">>

\* a slip: the name is not put in small letters
AgentName_NoLower(intf) == Strip(intf.name)

\* name = intf.get("name", "").strip().lower()
AgentName(intf) == Lower(Strip(intf.name))

\* mode = intf.get("mode", "").strip().upper()
AgentMode(intf) == Upper(Strip(intf.mode))

\* a slip: the mode is not looked at
AgentGenerated_AnyMode(intf) == Truthy(AgentName(intf))

\* the interface is not skipped: not (not name or mode not in ["M", "S"])
AgentGenerated(intf) ==
  Truthy(AgentName(intf)) /\ AgentMode(intf) \in {MODE_M, MODE_S}

AgentDir == "verif/ENV/AGENTS"

AgentFilePath(intf) ==
  Path(AgentDir, AgentName(intf), AgentName(intf) \o S_agent, ".sv")

CompFilePath(intf, suffix) ==
  Path(AgentDir, AgentName(intf), AgentName(intf) \o suffix, ".sv")

AgentSvLines(intf, i) ==
  LET name == AgentName(intf)
      mode == AgentMode(intf)
      agent_class == name \o S_agent
      drv_name == name \o S_drv
      drv_inst == drv_name \o S_h
      sqr_name == name \o S_sqr
      sqr_inst == sqr_name \o S_h
      mon_name == name \o S_mon
      mon_inst == mon_name \o S_h
      cov_name == name \o S_cov
      cov_inst == cov_name \o S_h
  IN  << L(T_AGENT_HEADER, <<agent_class>>, i),
         L(T_AGENT_CLASS, <<agent_class>>, i),
         L("'uvm_component_utils({agent_class})", <<agent_class>>, i),
         L("//Sub-Component Instantiation", <<>>, i) >>
      \o (IF mode = MODE_M
          THEN << L(T_AGENT_DRV_DECL, <<drv_name, drv_inst>>, i),
                  L(T_AGENT_SQR_DECL, <<sqr_name, sqr_inst>>, i) >>
          ELSE <<>>)
      \o << L(T_AGENT_MON_DECL, <<mon_name, mon_inst>>, i),
            L(T_AGENT_COV_DECL, <<cov_name, cov_inst>>, i),
            L("function new(string name = \"{agent_class}\", uvm_component parent = null);",
              <<agent_class>>, i),
            L("virtual function void build_phase(uvm_phase phase);", <<>>, i),
            L("  {mon_inst} = {mon_name}::type_id::create(\"{mon_inst}\", this);",
              <<mon_inst, mon_name, mon_inst>>, i),
            L("  {cov_inst} = {cov_name}::type_id::create(\"{cov_inst}\", this);",
              <<cov_inst, cov_name, cov_inst>>, i) >>
      \o (IF mode = MODE_M
          THEN << L(T_AGENT_DRV_CREATE,
                    <<drv_inst, drv_name, drv_inst>>, i),
                  L(T_AGENT_SQR_CREATE,
                    <<sqr_inst, sqr_name, sqr_inst>>, i) >>
          ELSE <<>>)
      \o << L("virtual function void connect_phase(uvm_phase phase);", <<>>, i) >>
      \o (IF mode = MODE_M
          THEN << L(T_AGENT_DRV_CONNECT,
                    <<drv_inst, sqr_inst>>, i) >>
          ELSE <<>>)
      \o << L(T_AGENT_MON_CONNECT,
              <<mon_inst, name \o S_ap_h, cov_inst>>, i),
            L("endclass : {agent_class}", <<agent_class>>, i) >>

MonSvLines(intf, i) ==
  LET name == AgentName(intf)
      class_name == name \o S_mon
  IN  << L(T_COMP_HEADER, <<<<"m","o","n">>, class_name>>, i),
         L(T_COMP_CLASS, <<class_name, UVM_MONITOR>>, i),
         L("'uvm_component_utils({class_name})", <<class_name>>, i),
         L(T_COMP_VIF_DECL, <<name \o S_if, name \o S_vif>>, i),
         L(T_MON_AP_DECL, <<name \o S_tx, name \o S_ap_h>>, i),
         L("{name}_tx tx;", <<name \o S_tx>>, i),
         L("function new(string name = \"{class_name}\", uvm_component parent = null);",
           <<class_name>>, i),
         L("virtual function void build_phase(uvm_phase phase);", <<>>, i),
         L("  tx = {name}_tx::type_id::create(\"tx\");", <<name \o S_tx>>, i),
         L("  {name}_ap_h = new(\"{name}_ap_h\",this);", <<name \o S_ap_h, name \o S_ap_h>>, i),
         L(T_COMP_VIF_GET,
           <<name \o S_if, name \o S_vif>>, i),
         L("     'uvm_error(get_full_name(),\"FAILED TO RETRIVE VIF HANDLE FROM CONFIG_DB\")",
           <<>>, i),
         L("virtual task run_phase(uvm_phase phase);", <<>>, i),
         L("    //TODO: Implement {name} specific mon logic functionality", <<name>>, i),
         L("    {name}_ap_h.write(tx);", <<name \o S_ap_h>>, i),
         L("endclass : {class_name}", <<class_name>>, i) >>

CovSvLines(intf, i) ==
  LET name == AgentName(intf)
      class_name == name \o S_cov
  IN  << L(T_COMP_HEADER, <<<<"c","o","v">>, class_name>>, i),
         L(T_COMP_CLASS_TX,
           <<class_name, UVM_SUBSCRIBER, name \o S_tx>>, i),
         L("'uvm_component_utils({class_name})", <<class_name>>, i),
         L("{name}_tx tx;", <<name \o S_tx>>, i),
         L("covergroup cg;", <<>>, i),
         L("function new(string name = \"{class_name}\", uvm_component parent = null);",
           <<class_name>>, i),
         L("virtual function void write(T t);", <<>>, i),
         L("endclass : {class_name}", <<class_name>>, i) >>

DrvSvLines(intf, i) ==
  LET name == AgentName(intf)
      class_name == name \o S_drv
  IN  << L(T_COMP_HEADER, <<<<"d","r","v">>, class_name>>, i),
         L(T_COMP_CLASS_TX,
           <<class_name, UVM_DRIVER, name \o S_tx>>, i),
         L("'uvm_component_utils({class_name})", <<class_name>>, i),
         L(T_COMP_VIF_DECL, <<name \o S_if, name \o S_vif>>, i),
         L("function new(string name = \"{class_name}\", uvm_component parent = null);",
           <<class_name>>, i),
         L("virtual function void build_phase(uvm_phase phase);", <<>>, i),
         L(T_COMP_VIF_GET,
           <<name \o S_if, name \o S_vif>>, i),
         L("     'uvm_error(get_full_name(),\"FAILED TO RETRIVE VIF HANDLE FROM CONFIG_DB\")",
           <<>>, i),
         L("virtual task run_phase(uvm_phase phase);", <<>>, i),
         L("task drive_tx({name}_tx tx);", <<name \o S_tx>>, i),
         L("  // TODO: Implement {name} specific drive logic functionality", <<name>>, i),
         L("endclass : {class_name}", <<class_name>>, i) >>

SqrSvLines(intf, i) ==
  LET name == AgentName(intf)
      class_name == name \o S_sqr
  IN  << L(T_COMP_HEADER, <<<<"s","q","r">>, class_name>>, i),
         L(T_COMP_TYPEDEF, <<UVM_SEQUENCER, name \o S_tx, class_name>>, i) >>

\* a slip: the driver and the sequencer are added whatever the mode
AgentComponents_Always(intf) == <<S_mon, S_cov, S_drv, S_sqr>>

\* components = {"mon": ..., "cov": ...}, and for mode M also "drv" and "sqr";
\* a dict is iterated in insertion order
AgentComponents(intf) ==
  IF AgentMode(intf) = MODE_M THEN <<S_mon, S_cov, S_drv, S_sqr>>
  ELSE <<S_mon, S_cov>>

\* the dict's value for the key suffix
BaseClass(suffix) ==
  IF suffix = S_mon THEN UVM_MONITOR
  ELSE IF suffix = S_cov THEN UVM_SUBSCRIBER
  ELSE IF suffix = S_drv THEN UVM_DRIVER
  ELSE UVM_SEQUENCER

CompSvLines(intf, i, suffix) ==
  IF suffix = S_mon THEN MonSvLines(intf, i)
  ELSE IF suffix = S_cov THEN CovSvLines(intf, i)
  ELSE IF suffix = S_drv THEN DrvSvLines(intf, i)
  ELSE SqrSvLines(intf, i)

\* the file-system operations of one iteration of the loop over the interfaces
AgentIntfOps(intf, i) ==
  IF ~AgentGenerated(intf) THEN <<>>
  ELSE LET comps == AgentComponents(intf)
       IN  << MkdirOp("agent", i, AgentDir, AgentName(intf)),
              WriteOp("agent", i, AgentFilePath(intf), AgentSvLines(intf, i)) >>
           \o [k \in 1..Len(comps) |->
                 WriteOp("agent", i, CompFilePath(intf, comps[k]),
                         CompSvLines(intf, i, comps[k]))]

AgentOps(cfg) ==
  << MkdirOp("agent", 0, AgentDir, <<>>),
     MkdirOp("agent", 0, "verif/SIM", <<>>) >>
  \o ForEach(AgentIntfOps, cfg.interfaces, 1)

AgentIntfReadmeLines(intf, i) ==
  IF ~AgentGenerated(intf) THEN <<>>
  ELSE LET comps == AgentComponents(intf)
       IN  << L(" -{agent_class}.sv", <<AgentName(intf) \o S_agent>>, i) >>
           \o [k \in 1..Len(comps) |->
                 L("   +-- {class_name}.sv (extends {base_class})",
                   <<AgentName(intf) \o comps[k], BaseClass(comps[k])>>, i)]

AgentReadmeLines(cfg) ==
  << L(T_AGENT_SUMMARY, <<>>, 0) >>
  \o ForEach(AgentIntfReadmeLines, cfg.interfaces, 1)
  \o << L("TODO for User:", <<>>, 0),
        L("- In Driver file", <<>>, 0),
        L("- In Cov file", <<>>, 0),
        L("- In Mon file", <<>>, 0),
        L("---------------------------------------------------------------------------",
          <<>>, 0) >>

\* with open(readme_path, "a") as readme: ..., then with open(readme_path, "a") as rf
AgentReadme(old, cfg) == ReadmeA(old, AgentReadmeLines(cfg))

AgentIntfLog(intf, i) ==
  IF ~AgentGenerated(intf) THEN <<>>
  ELSE LET comps == AgentComponents(intf)
       IN  << L("Created agent class: {agent_file}", <<AgentName(intf) \o S_agent>>, i) >>
           \o [k \in 1..Len(comps) |->
                 L("Created component: {comp_file}", <<AgentName(intf) \o comps[k]>>, i)]

AgentLog(cfg) ==
  ForEach(AgentIntfLog, cfg.interfaces, 1)
  \o << L("\nRefer to README.txt for a detailed summary of agents and its components file:",
          <<>>, 0),
        L("   -> {readme_path}", <<>>, 0),
        L("----------------------------------------------------------------------------",
          <<>>, 0) >>

(***************************************************************************)
(* generate_base_seq: verif/SEQ_LIB/<dut>_base_seq.sv and its section.     *)
(***************************************************************************)
SeqPath(cfg) == Path("verif/SEQ_LIB", <<>>, DutStem(cfg) \o S_base_seq, ".sv")

SeqSvLines(cfg) ==
  LET seq_class == DutStem(cfg) \o S_base_seq
  IN  << L("//UVM sequence: {seq_class}", <<seq_class>>, 0),
         L(T_SEQ_CLASS, <<seq_class>>, 0),
         L("'uvm_object_utils({seq_class})", <<seq_class>>, 0),
         L("function new(string name = \"{seq_class}\");", <<seq_class>>, 0),
         L("virtual task body();", <<>>, 0),
         L("  'uvm_info(get_type_name(), \"Starting {seq_class}\", UVM_NONE)",
           <<seq_class>>, 0),
         L("  'uvm_do(req)", <<>>, 0),
         L("endclass : {seq_class}", <<seq_class>>, 0) >>

SeqReadmeLines(cfg) ==
  LET seq_class == DutStem(cfg) \o S_base_seq
  IN  << L(T_SEQ_SUMMARY, <<seq_class>>, 0),
         L("- Class {seq_class} extends uvm_sequence", <<seq_class>>, 0),
         L("- Factory registration with 'uvm_object_utils'", <<>>, 0),
         L("- TODO: Define sequence item type (req) and if needed use uuvm_do_with instead of uvm_do",
           <<>>, 0),
         L("---------------------------------------------------------------------------------------------",
           <<>>, 0) >>

SeqOps(cfg) ==
  IF ~Truthy(DutStem(cfg)) THEN <<>>
  ELSE << MkdirOp("seq", 0, "verif/SEQ_LIB", <<>>),
          MkdirOp("seq", 0, "verif/SIM", <<>>),
          WriteOp("seq", 0, SeqPath(cfg), SeqSvLines(cfg)) >>

\* with open(readme_path, "a") as rf: rf.write(...)
SeqReadme(old, cfg) ==
  IF ~Truthy(DutStem(cfg)) THEN old
  ELSE ReadmeA(old, SeqReadmeLines(cfg))

SeqLog(cfg) ==
  IF ~Truthy(DutStem(cfg))
  THEN <<L(T_SEQ_SKIP, <<>>, 0)>>
  ELSE << L("Generated base sequence: {seq_file}", <<>>, 0),
          L("\nRefer to README.txt for a detailed summary of agents and its components file:",
            <<>>, 0),
          L("   -> {readme_path}", <<>>, 0),
          L("----------------------------------------------------------------------------",
            <<>>, 0) >>

(***************************************************************************)
(* The script: UVM_TB_PARAMS.csv is read, the directories are made, and    *)
(* the five generators run in the order the module calls them.             *)
(***************************************************************************)
\* the rows csv.reader yields, each a sequence of raw cells
RowSet ==
  {
    \* a DUT_NAME row; the key in another case and with a blank, the name in capitals
    <<<<"D","u","t"," ","N","a","m","e">>, <<" ","U","b"," ">>>>,
    \* a DUT_NAME row without a name
    <<<<"D","U","T","_","N","A","M","E">>, <<" ">>>>,
    \* a NUM_INTF row
    <<<<"N","U","M","_","I","N","T","F">>, <<"2">>>>,
    \* a NUM_INTF row that is no integer
    <<<<"N","U","M","_","I","N","T","F">>, <<"x">>>>,
    \* a row with an unknown key
    <<<<"F","O","O">>, <<"a">>>>,
    \* a blank row
    <<<<>>, <<" ">>>>,
    \* master, no reset
    <<<<"I","N","T","F">>, <<"a">>, <<"M">>, <<"1","0","0">>, <<"c">>>>,
    \* slave in small letters, frequency 0, reset as a single token
    <<<<"i","n","t","f">>, <<"B">>, <<"s">>, <<"0">>, <<"c">>, <<"r">>>>,
    \* slave, reset with the low polarity token
    <<<<"I","N","T","F">>, <<"a">>, <<"S">>, <<"1","0","0">>, <<"c">>, <<"r",",","0">>>>,
    \* unknown mode, frequency no number, no clock
    <<<<"I","N","T","F">>, <<"a">>, <<"X">>, <<"x">>, <<"n","i","l">>, <<"r",",","h","i">>>>,
    \* master, reset with a polarity token that is neither 0 nor 1
    <<<<"I","N","T","F">>, <<"a">>, <<"M">>, <<"1","0","0">>, <<"c">>, <<"r",",","h","i">>>>,
    \* an INTF row of four fields
    <<<<"I","N","T","F">>, <<"a">>, <<"M">>, <<"1","0","0">>>>,
    \* no name, no reset
    <<<<"I","N","T","F">>, <<"n","i","l">>, <<"M">>, <<"8">>, <<"c">>, <<"N","I","L">>>>,
    \* master, reset with the high polarity token
    <<<<"I","N","T","F">>, <<"b">>, <<"M">>, <<"1","0","0">>, <<"c">>, <<"r",","," ","1">>>>,
    \* a blank frequency cell
    <<<<"I","N","T","F">>, <<"a">>, <<"M">>, <<" ">>, <<"c">>, <<"r">>>>
  }

Inputs == UNION {[1..n -> RowSet] : n \in 0..MaxRows}

\* the log starts anew with each run: open(log_file_name, "w")
LogHeader ==
  << L(">> Log started at: {datetime.now()} <<", <<>>, 0),
     L(">> Python version: {platform.python_version()} ({sys.executable}) <<\n", <<>>, 0) >>

ParsedIntfLog(intf, i) ==
  <<L("[{i}] Name: {name}, Mode: {mode}, Speed: {speed}, Clk: {clk}, Rst: {rst}, Rst Type: {rst_type}",
      <<intf.name, intf.mode, intf.speed, intf.clk, intf.rst, intf.rst_type>>, i)>>

ParsedLog(cfg) ==
  << L("----------------------------------------------------------------------------", <<>>, 0),
     L("DUT Name        : {config.get('dut_name')}", <<cfg.dut_name>>, 0),
     LN("Num Interfaces  : {config.get('num_interfaces')}", <<>>, cfg.num_interfaces, 0),
     L("\nParsed Interface Configurations:", <<>>, 0) >>
  \o ForEach(ParsedIntfLog, cfg.interfaces, 1)
  \o << L("----------------------------------------------------------------------------", <<>>, 0) >>

\* dirs_to_create
TbDirs ==
  << "verif/TOP", "verif/TEST_LIB", "verif/SEQ_LIB", "verif/ENV",
     "verif/ENV/AGENTS", "verif/ENV/SBD", "verif/RAL", "verif/SIM" >>

DirsOps == [k \in 1..Len(TbDirs) |-> MkdirOp("dirs", 0, TbDirs[k], <<>>)]

DirsLog ==
  [k \in 1..Len(TbDirs) |-> L("Created: {d}", <<>>, k)]
  \o << L("----------------------------------------------------------------------------", <<>>, 0) >>

Init ==
  /\ input \in Inputs
  /\ pc = "parse"
  /\ run = 1
  /\ config = EmptyConfig
  /\ dirs = {}
  /\ files = <<>>
  /\ readme = <<>>
  /\ log = LogHeader
  /\ emitted = <<>>
  /\ prev_files = <<>>
  /\ prev_readme = <<>>

\* what a generator's file-system operations, README text and prints do
Effects(ops, newReadme, prints, nextPc) ==
  /\ emitted' = emitted \o ops
  /\ files' = ApplyFiles(files, ops)
  /\ dirs' = ApplyDirs(dirs, ops)
  /\ readme' = newReadme
  /\ log' = log \o prints
  /\ pc' = nextPc
  /\ UNCHANGED <<input, run, config, prev_files, prev_readme>>

\* config = read_interface_csv(CSV_FILE), and the prints of the parsed model
Parse ==
  /\ pc = "parse"
  /\ read_interface_csv(input).ok
  /\ config' = read_interface_csv(input).cfg
  /\ log' = log \o ParsedLog(read_interface_csv(input).cfg)
  /\ pc' = "dirs"
  /\ UNCHANGED <<input, run, dirs, files, readme, emitted, prev_files, prev_readme>>

\* int() raises ValueError in read_interface_csv: the script ends there
ParseError ==
  /\ pc = "parse"
  /\ ~read_interface_csv(input).ok
  /\ log' = log \o <<L("ValueError: invalid literal for int() with base 10", <<>>, 0)>>
  /\ pc' = "crashed"
  /\ UNCHANGED <<input, run, config, dirs, files, readme, emitted, prev_files, prev_readme>>

create_uvm_tb_dirs ==
  /\ pc = "dirs"
  /\ Effects(DirsOps, readme, DirsLog, "top")

generate_top_sv_from_cfg ==
  /\ pc = "top"
  /\ Effects(TopOps(config), TopReadme(readme, config), TopLog(config), "test")

generate_uvm_test ==
  /\ pc = "test"
  /\ Effects(TestOps(config), TestReadme(readme, config), TestLog(config), "env")

generate_uvm_env ==
  /\ pc = "env"
  /\ Effects(EnvOps(config), EnvReadme(readme, config), EnvLog(config), "agent")

create_full_agent_and_components ==
  /\ pc = "agent"
  /\ Effects(AgentOps(config), AgentReadme(readme, config), AgentLog(config), "seq")

generate_base_seq ==
  /\ pc = "seq"
  /\ Effects(SeqOps(config), SeqReadme(readme, config), SeqLog(config), "done")

\* the script is run again on the same input, over the tree the last run left
Rerun ==
  /\ pc \in {"done", "crashed"}
  /\ run < MaxRuns
  /\ run' = run + 1
  /\ pc' = "parse"
  /\ config' = EmptyConfig
  /\ log' = LogHeader
  /\ emitted' = <<>>
  /\ prev_files' = files
  /\ prev_readme' = readme
  /\ UNCHANGED <<input, dirs, files, readme>>

Next ==
  \/ Parse
  \/ ParseError
  \/ create_uvm_tb_dirs
  \/ generate_top_sv_from_cfg
  \/ generate_uvm_test
  \/ generate_uvm_env
  \/ create_full_agent_and_components
  \/ generate_base_seq
  \/ Rerun

Spec == Init /\ [][Next]_vars

\* rows for the clock, reset and blank-cell cases of an INTF row
IntfRowSet ==
  {
    \* a NUM_INTF row that is no integer
    <<<<"N","U","M","_","I","N","T","F">>, <<"x">>>>,
    \* clock and reset, the polarity left to the default
    <<<<"I","N","T","F">>, <<"a">>, <<"M">>, <<"1","0","0">>, <<"c">>, <<"r">>>>,
    \* a negative frequency, another name and clock, the low polarity token
    <<<<"I","N","T","F">>, <<"B">>, <<"S">>, <<"-","5">>, <<"d">>, <<"q",",","0">>>>,
    \* the frequency nil
    <<<<"I","N","T","F">>, <<"a">>, <<"M">>, <<"n","i","l">>, <<"c">>>>,
    \* a frequency that is no number
    <<<<"I","N","T","F">>, <<"a">>, <<"M">>, <<"x">>, <<"c">>, <<"r">>>>,
    \* the frequency 0
    <<<<"I","N","T","F">>, <<"b">>, <<"S">>, <<"0">>, <<"c">>>>,
    \* 6 MHz: the period 166.667 ns, half of it 83.3335
    <<<<"I","N","T","F">>, <<"a">>, <<"M">>, <<"6">>, <<"c">>, <<"q",",","1">>>>,
    \* 7 MHz: the period 142.857 ns, half of it 71.4285; no name, no reset
    <<<<"I","N","T","F">>, <<"n","i","l">>, <<"M">>, <<"7">>, <<"d">>, <<"N","I","L">>>>,
    \* a reset without a clock
    <<<<"I","N","T","F">>, <<"a">>, <<"M">>, <<"1","0","0">>, <<"n","i","l">>, <<"r">>>>,
    \* a clock without a reset
    <<<<"I","N","T","F">>, <<"a">>, <<"M">>, <<"1","0","0">>, <<"c">>, <<"n","i","l">>>>,
    \* a reset whose polarity token is empty
    <<<<"I","N","T","F">>, <<"a">>, <<"M">>, <<"1","0","0">>, <<"c">>, <<"r",",">>>>,
    \* a blank frequency cell
    <<<<"I","N","T","F">>, <<"a">>, <<"M">>, <<" ">>, <<"c">>, <<"r">>>>,
    \* a frequency with a decimal point
    <<<<"I","N","T","F">>, <<"b">>, <<"M">>, <<"2",".","5">>, <<"c">>>>,
    \* a blank reset cell
    <<<<"I","N","T","F">>, <<"b">>, <<"M">>, <<"1","0","0">>, <<"c">>, <<" ">>>>
  }

IntfInputs == UNION {[1..n -> IntfRowSet] : n \in 0..MaxRows}

InitIntf ==
  /\ input \in IntfInputs
  /\ pc = "parse"
  /\ run = 1
  /\ config = EmptyConfig
  /\ dirs = {}
  /\ files = <<>>
  /\ readme = <<>>
  /\ log = LogHeader
  /\ emitted = <<>>
  /\ prev_files = <<>>
  /\ prev_readme = <<>>

SpecIntf == InitIntf /\ [][Next]_vars

(***************************************************************************)
(* What the properties read off the state.                                 *)
(***************************************************************************)
\* the positions in emitted of the operations generator gen made for interface i
OpsOf(gen, i) ==
  {j \in 1..Len(emitted) : emitted[j].gen = gen /\ emitted[j].i = i}

\* the positions in emitted of the files generator gen wrote in this run
WritesOf(gen) ==
  {j \in 1..Len(emitted) : emitted[j].gen = gen /\ emitted[j].kind = "write"}

\* the values of placeholder k in the lines of f-string t for interface i of content
IdsIn(content, t, k, i) ==
  {content[j].a[k] : j \in {x \in 1..Len(content) : content[x].t = t /\ content[x].i = i}}

\* the same, over all the files generator gen wrote in this run
Ids(gen, t, k, i) ==
  UNION {IdsIn(emitted[j].content, t, k, i) : j \in WritesOf(gen)}

\* all values of the set-valued expressions agree
Agree(sets) == Cardinality(UNION sets) <= 1

HasLine(content, t) == \E k \in 1..Len(content) : content[k].t = t

NumIntf == Len(config.interfaces)

After(pcs) == pc \in pcs

(***************************************************************************)
(* C1. The identifiers derived from an interface name are the same bytes   *)
(* in every generator that emits them (top.sv, the environment, the agent  *)
(* and its components), and the identifiers derived from dut_name are the  *)
(* same bytes in top.sv, the test, the environment and the sequence.       *)
(***************************************************************************)
C1_IdentifiersAgree ==
  /\ \A i \in 1..NumIntf :
       \* <name>_if
       /\ Agree({ Ids("top", T_TOP_INTF_INST, 1, i), Ids("top", T_TOP_CONFIG_DB, 1, i),
                  Ids("agent", T_COMP_VIF_DECL, 1, i), Ids("agent", T_COMP_VIF_GET, 1, i) })
       \* <name>_agent
       /\ Agree({ Ids("env", T_ENV_AGENT_DECL, 1, i), Ids("env", T_ENV_AGENT_CREATE, 2, i),
                  Ids("agent", T_AGENT_CLASS, 1, i),
                  {emitted[j].path.name : j \in {w \in WritesOf("agent") :
                       emitted[w].i = i /\ emitted[w].content[1].t = T_AGENT_HEADER}} })
       \* <name>_ap_h
       /\ Agree({ Ids("env", T_ENV_CONNECT, 3, i), Ids("agent", T_AGENT_MON_CONNECT, 2, i),
                  Ids("agent", T_MON_AP_DECL, 2, i) })
       \* <name>_tx
       /\ Agree({ Ids("agent", T_MON_AP_DECL, 1, i), Ids("agent", T_COMP_CLASS_TX, 3, i),
                  Ids("agent", T_COMP_TYPEDEF, 2, i) })
       \* <name>_drv, <name>_sqr, <name>_mon, <name>_cov: the agent's handle types
       \* and the classes and files of the components
       /\ \A suffix \in {S_drv, S_sqr, S_mon, S_cov} :
            LET decl == IF suffix = S_drv THEN T_AGENT_DRV_DECL
                        ELSE IF suffix = S_sqr THEN T_AGENT_SQR_DECL
                        ELSE IF suffix = S_mon THEN T_AGENT_MON_DECL
                        ELSE T_AGENT_COV_DECL
                comp == {w \in WritesOf("agent") :
                           /\ emitted[w].i = i
                           /\ emitted[w].content[1].t = T_COMP_HEADER
                           /\ emitted[w].content[1].a[1] = SubSeq(suffix, 2, Len(suffix))}
            IN  Agree({ Ids("agent", decl, 1, i),
                        {emitted[w].path.name : w \in comp},
                        {emitted[w].content[1].a[2] : w \in comp} })
  \* <dut>_base_test, <dut>_env, <dut>_base_seq
  /\ (WritesOf("test") # {} =>
        Agree({ Ids("top", T_TOP_RUN_TEST, 1, 0), Ids("test", T_TEST_CLASS, 1, 0),
                {emitted[w].path.name : w \in WritesOf("test")} }))
  /\ Agree({ Ids("test", T_TEST_ENV_DECL, 1, 0), Ids("env", T_ENV_CLASS, 1, 0),
             {emitted[w].path.name : w \in WritesOf("env")} })
  /\ Agree({ Ids("test", T_TEST_SEQ_CREATE, 1, 0), Ids("test", T_TEST_SEQ_CREATE, 2, 0),
             Ids("seq", T_SEQ_CLASS, 1, 0),
             {emitted[w].path.name : w \in WritesOf("seq")} })

\* every generator has run on a DUT name and an interface name with capitals,
\* and each of them emitted the identifiers of that interface
C1_Witness ==
  /\ pc = "done"
  /\ config.dut_name # None
  /\ Lower(config.dut_name) # config.dut_name
  /\ \E i \in 1..NumIntf :
       /\ Lower(config.interfaces[i].name) # config.interfaces[i].name
       /\ Ids("top", T_TOP_INTF_INST, 1, i) # {}
       /\ Ids("env", T_ENV_AGENT_DECL, 1, i) # {}
       /\ Ids("agent", T_COMP_VIF_DECL, 1, i) # {}
       /\ Ids("agent", T_AGENT_CLASS, 1, i) # {}
  /\ Ids("seq", T_SEQ_CLASS, 1, 0) # {}
  /\ Ids("test", T_TEST_CLASS, 1, 0) # {}

(***************************************************************************)
(* C2. For an interface the agent generator processes: with mode M it      *)
(* writes the agent, driver, sequencer, monitor and coverage files; with   *)
(* mode S the agent, monitor and coverage files and no driver or sequencer *)
(* file; and the agent class declares, creates and connects the driver and *)
(* sequencer handles exactly when it writes those two files.               *)
(***************************************************************************)
\* which file of an agent directory an operation wrote
FileKind(w) ==
  IF w.content[1].t = T_AGENT_HEADER THEN <<"a","g","e","n","t">>
  ELSE w.content[1].a[1]

KindsWritten(i) ==
  {FileKind(emitted[j]) : j \in {x \in WritesOf("agent") : emitted[x].i = i}}

C2_ModeDecidesComponents ==
  After({"seq", "done"}) =>
    \A i \in 1..NumIntf :
      LET mode == Upper(Strip(config.interfaces[i].mode))
          agents == {w \in WritesOf("agent") :
                       emitted[w].i = i /\ emitted[w].content[1].t = T_AGENT_HEADER}
          drvsqr == {<<"d","r","v">>, <<"s","q","r">>} \subseteq KindsWritten(i)
      IN  /\ mode = <<"M">> =>
                KindsWritten(i) = { <<"a","g","e","n","t">>, <<"d","r","v">>,
                                    <<"s","q","r">>, <<"m","o","n">>, <<"c","o","v">> }
          /\ mode = <<"S">> =>
                KindsWritten(i) = { <<"a","g","e","n","t">>, <<"m","o","n">>, <<"c","o","v">> }
          /\ \A w \in agents :
               /\ HasLine(emitted[w].content, T_AGENT_DRV_DECL) <=> drvsqr
               /\ HasLine(emitted[w].content, T_AGENT_SQR_DECL) <=> drvsqr
               /\ HasLine(emitted[w].content, T_AGENT_DRV_CREATE) <=> drvsqr
               /\ HasLine(emitted[w].content, T_AGENT_SQR_CREATE) <=> drvsqr
               /\ HasLine(emitted[w].content, T_AGENT_DRV_CONNECT) <=> drvsqr

\* the agent generator has processed a master and a slave of the same name
C2_Witness ==
  /\ pc = "done"
  /\ NumIntf = 2
  /\ config.interfaces[1].name = config.interfaces[2].name
  /\ Upper(Strip(config.interfaces[1].mode)) = <<"M">>
  /\ Upper(Strip(config.interfaces[2].mode)) = <<"S">>
  /\ <<"d","r","v">> \in KindsWritten(1)
  /\ <<"m","o","n">> \in KindsWritten(2)

(***************************************************************************)
(* C3. For an interface whose mode is neither M nor S the agent generator  *)
(* makes no directory and writes no file, while the environment, when      *)
(* there is a dut_name, declares and creates the handle <name>_agent_h.    *)
(***************************************************************************)
C3_SkippedAgentStillInEnv ==
  \A i \in 1..NumIntf :
    LET intf == config.interfaces[i]
        handle == (Lower(intf.name) \o S_agent) \o S_h
    IN  Upper(Strip(intf.mode)) \notin {<<"M">>, <<"S">>} =>
          /\ After({"seq", "done"}) => OpsOf("agent", i) = {}
          /\ (After({"agent", "seq", "done"}) /\ config.dut_name # None) =>
               /\ Ids("env", T_ENV_AGENT_DECL, 2, i) = {handle}
               /\ Ids("env", T_ENV_AGENT_CREATE, 1, i) = {handle}

\* both generators have run on an interface of another mode, with a DUT name
C3_Witness ==
  /\ pc = "done"
  /\ config.dut_name # None
  /\ \E i \in 1..NumIntf :
       /\ Upper(Strip(config.interfaces[i].mode)) \notin {<<"M">>, <<"S">>}
       /\ Ids("env", T_ENV_AGENT_DECL, 2, i) # {}

(***************************************************************************)
(* C4. Without a DUT_NAME row the test, environment and sequence           *)
(* generators write no file and log that they skip, top.sv is written with *)
(* the fallback stem "dut" for the DUT instance and the run_test name, and *)
(* the script goes on through the remaining generators.                    *)
(***************************************************************************)
Logged(t) == \E k \in 1..Len(log) : log[k].t = t

C4_NoDutName ==
  (config.dut_name = None /\ After({"top", "test", "env", "agent", "seq", "done"})) =>
    /\ After({"test", "env", "agent", "seq", "done"}) =>
         /\ TopPath \in DOMAIN files
         /\ Ids("top", T_TOP_DUT_INST, 1, 0) = {<<"d","u","t">>}
         /\ Ids("top", T_TOP_DUT_INST, 2, 0) = {<<"u","_","d","u","t">>}
         /\ Ids("top", T_TOP_RUN_TEST, 1, 0)
              = {<<"d","u","t","_","b","a","s","e","_","t","e","s","t">>}
    /\ After({"env", "agent", "seq", "done"}) =>
         OpsOf("test", 0) = {} /\ Logged(T_TEST_SKIP)
    /\ After({"agent", "seq", "done"}) =>
         OpsOf("env", 0) = {} /\ Logged(T_ENV_SKIP)
    /\ After({"seq", "done"}) =>
         HasLine(readme, T_AGENT_SUMMARY)
    /\ After({"done"}) =>
         /\ OpsOf("seq", 0) = {} /\ Logged(T_SEQ_SKIP)
         /\ \A p \in DOMAIN files : p.dir \in {"verif/TOP", AgentDir}

\* the script has finished on an input without a DUT name, and the agent
\* generator wrote files after the test and environment generators skipped
C4_Witness ==
  /\ pc = "done"
  /\ config.dut_name = None
  /\ WritesOf("agent") # {}
  /\ Logged(T_TEST_SKIP) /\ Logged(T_ENV_SKIP) /\ Logged(T_SEQ_SKIP)

(***************************************************************************)
(* The sections of the summary document.                                   *)
(***************************************************************************)
GenOrder == <<"top", "test", "env", "agent", "seq">>

SectionOf(line) ==
  IF line.t = T_TOP_SUMMARY THEN "top"
  ELSE IF line.t = T_TEST_SUMMARY THEN "test"
  ELSE IF line.t = T_ENV_SUMMARY THEN "env"
  ELSE IF line.t = T_AGENT_SUMMARY THEN "agent"
  ELSE IF line.t = T_SEQ_SUMMARY THEN "seq"
  ELSE ""

IsSectionHeader(line) == SectionOf(line) # ""

\* the generators whose section headers the document holds, in order
Sections(doc) ==
  LET hs == SelectSeq(doc, IsSectionHeader)
  IN  [k \in 1..Len(hs) |-> SectionOf(hs[k])]

IsPrefix(a, b) == Len(a) <= Len(b) /\ SubSeq(b, 1, Len(a)) = a

\* the generators that wrote a file in this run
Emitters == {emitted[j].gen : j \in {x \in 1..Len(emitted) : emitted[x].kind = "write"}}

EmittedArtifact(g) == g \in Emitters

EmittedArtifactOrAgent(g) == g = "agent" \/ g \in Emitters

(***************************************************************************)
(* C5, as claimed. After a second run on the same input over the tree the  *)
(* first run left, the summary document is the first run's document twice. *)
(***************************************************************************)
C5_SummaryDoubled ==
  (pc = "done" /\ run >= 2) => readme = prev_readme \o prev_readme

(***************************************************************************)
(* C5, amended. After a second run on the same input over the tree the     *)
(* first run left, the summary document is the first run's document, once: *)
(* the Top-Level generator opens it for writing.                           *)
(***************************************************************************)
C5_SummaryRewritten ==
  (pc = "done" /\ run >= 2) => readme = prev_readme

\* a second run has finished, and the document holds the sections of all five
C5_Witness ==
  /\ pc = "done"
  /\ run = 2
  /\ Sections(readme) = GenOrder
  /\ prev_readme # <<>>

(***************************************************************************)
(* C6. After a second run on the same input over the tree the first run    *)
(* left, every artifact file holds what it held after the first run, and   *)
(* there is no further file.                                               *)
(***************************************************************************)
C6_ArtifactsUnchanged ==
  (pc = "done" /\ run >= 2) =>
    /\ DOMAIN files = DOMAIN prev_files
    /\ \A p \in DOMAIN files : files[p] = prev_files[p]

\* a second run has finished that wrote top.sv, the test, the environment,
\* the sequence and the files of an agent over those of the first run
C6_Witness ==
  /\ pc = "done"
  /\ run = 2
  /\ Emitters = {"top", "test", "env", "agent", "seq"}
  /\ DOMAIN prev_files # {}

(***************************************************************************)
(* C7, as claimed. Each of the five generators appends to the summary      *)
(* document: what the document held before is a prefix of what it holds    *)
(* after.                                                                  *)
(***************************************************************************)
C7_EveryGeneratorAppends ==
  [][(pc \in {"top", "test", "env", "agent", "seq"}) => IsPrefix(readme, readme')]_vars

(***************************************************************************)
(* C7, amended. The Test, Environment, Agent/Component and Sequence        *)
(* generators append to the summary document; the Top-Level generator      *)
(* replaces it: after it has run the document holds its section alone.     *)
(***************************************************************************)
C7_AllButTopAppend ==
  [][ /\ pc \in {"test", "env", "agent", "seq"} => IsPrefix(readme, readme')
      /\ pc = "top" => Sections(readme') = <<"top">> /\ readme'[1].t = T_TOP_SUMMARY
    ]_vars

\* the Top-Level generator has run over the document of an earlier run, and
\* the others have appended their sections to it
C7_Witness ==
  /\ pc = "done"
  /\ run = 2
  /\ prev_readme # <<>>
  /\ Len(Sections(readme)) >= 3

(***************************************************************************)
(* C8, as claimed. After a run on an empty tree the summary document holds *)
(* one section for each generator that wrote an artifact and none for a    *)
(* generator that wrote none, in the order the generators ran.             *)
(***************************************************************************)
C8_SectionPerEmitter ==
  (pc = "done" /\ run = 1) => Sections(readme) = SelectSeq(GenOrder, EmittedArtifact)

(***************************************************************************)
(* C8, amended. After a run on an empty tree the summary document holds    *)
(* one section for the Agent/Component generator, whether or not it wrote  *)
(* an artifact, one for each other generator that wrote an artifact and    *)
(* none for another generator that wrote none, in the order they ran.      *)
(***************************************************************************)
C8_SectionPerEmitterOrAgent ==
  (pc = "done" /\ run = 1) =>
    Sections(readme) = SelectSeq(GenOrder, EmittedArtifactOrAgent)

\* a first run has finished in which the agent generator wrote no file and
\* the test, environment and sequence generators did
C8_Witness ==
  /\ pc = "done"
  /\ run = 1
  /\ "agent" \notin Emitters
  /\ {"test", "env", "seq"} \subseteq Emitters
  /\ Sections(readme) = GenOrder

(***************************************************************************)
(* C9. The interfaces list holds one record for each INTF row of at least  *)
(* five non-blank fields, in the order of those rows, a repeated name      *)
(* giving a record each time; rows of other keys add, drop and move none.  *)
(***************************************************************************)
NonBlankCells(raw) == SelectSeq(raw, NonBlank)

IsIntfRow(raw) ==
  LET cells == NonBlankCells(raw)
  IN  /\ Len(cells) >= 5
      /\ ReplaceSpace(Upper(Strip(cells[1]))) = <<"I","N","T","F">>

C9_InterfacesInRowOrder ==
  After({"dirs", "top", "test", "env", "agent", "seq", "done"}) =>
    LET rows == SelectSeq(input, IsIntfRow)
    IN  /\ NumIntf = Len(rows)
        /\ \A k \in 1..NumIntf :
             LET cells == NonBlankCells(rows[k])
             IN  /\ config.interfaces[k].name = Strip(cells[2])
                 /\ config.interfaces[k].mode = Strip(cells[3])
                 /\ config.interfaces[k].speed = Strip(cells[4])
                 /\ config.interfaces[k].clk = Strip(cells[5])

\* two INTF rows of the same name have been parsed into two records
C9_Witness ==
  /\ pc = "dirs"
  /\ Len(input) = 2
  /\ NumIntf = 2
  /\ config.interfaces[1].name = config.interfaces[2].name

(***************************************************************************)
(* C10, as claimed. For an interface with a clock and a reset, the reset   *)
(* pulse of top.sv is active high (reset = 1, the clock edge, reset = 0)   *)
(* when the reset spec is one token or has a polarity token other than the *)
(* low marker, and active low (0, then 1) only for the low marker.         *)
(***************************************************************************)
C10_ResetPolarity ==
  After({"test", "env", "agent", "seq", "done"}) =>
    \A i \in 1..NumIntf :
      LET intf == config.interfaces[i]
      IN  (Defined(intf.clk) /\ Defined(intf.rst)) =>
            IF intf.rst_type = RST_TYPE_LOW
            THEN /\ Ids("top", T_TOP_RST_ASSERT, 2, i) = {<<"0">>}
                 /\ Ids("top", T_TOP_RST_DEASSERT, 2, i) = {<<"1">>}
            ELSE /\ Ids("top", T_TOP_RST_ASSERT, 2, i) = {<<"1">>}
                 /\ Ids("top", T_TOP_RST_DEASSERT, 2, i) = {<<"0">>}

(***************************************************************************)
(* What the properties read off top.sv and the Top-Level summary section.  *)
(***************************************************************************)
\* top.sv was written in this run
TopWritten == WritesOf("top") # {}

\* the lines of the top.sv of this run
TopSv == files[TopPath]

\* the positions in top.sv of the lines of f-string t for interface i
TopAt(t, i) == {k \in 1..Len(TopSv) : TopSv[k].t = t /\ TopSv[k].i = i}

\* the clock-generation statements of interface i in top.sv
TopClockGen(i) ==
  TopAt("  initial {clk} = 0;", i) \cup TopAt("  always #{half_period} {clk} = ~{clk};\n", i)

\* a frequency that is the nil sentinel, no number, 0 or negative
FreqSuppressed(speed) ==
  \/ Lower(speed) = NIL
  \/ ~IsIntLiteral(speed)
  \/ IntValue(speed) <= 0

(***************************************************************************)
(* C11. An interface with a defined clock has its clock declared in top.sv *)
(* whatever its frequency; it has no clock-generation statement when the   *)
(* frequency is 0, negative, nil or no number; and an interface with a     *)
(* defined clock and a positive frequency has its statement whatever the   *)
(* frequencies of the other interfaces are.                                *)
(***************************************************************************)
C11_ClockSuppression ==
  TopWritten =>
    \A i \in 1..NumIntf :
      LET intf == config.interfaces[i]
      IN  Defined(intf.clk) =>
            /\ \E k \in TopAt("  logic {clk};", i) : TopSv[k].a[1] = intf.clk
            /\ (FreqSuppressed(intf.speed) => TopClockGen(i) = {})
            /\ (~FreqSuppressed(intf.speed) =>
                  \E k \in TopAt("  always #{half_period} {clk} = ~{clk};\n", i) :
                     TopSv[k].a[1] = intf.clk)

\* top.sv was written for an interface with a clock and a negative frequency
\* that comes before an interface whose clock is generated
C11_Witness ==
  /\ TopWritten
  /\ \E i, j \in 1..NumIntf :
       /\ i < j
       /\ Defined(config.interfaces[i].clk)
       /\ IsIntLiteral(config.interfaces[i].speed)
       /\ IntValue(config.interfaces[i].speed) < 0
       /\ TopClockGen(i) = {}
       /\ TopAt("  logic {clk};", i) # {}
       /\ TopClockGen(j) # {}

\* interface i has a defined clock and a positive numeric frequency
ClockGenerated(i) ==
  /\ Defined(config.interfaces[i].clk)
  /\ ~FreqSuppressed(config.interfaces[i].speed)

\* m thousandths is 1000000 / f thousandths rounded to the nearest one
NearestMilli(m, f) ==
  LET d == m * f - 1000000
  IN  2 * (IF d < 0 THEN 0 - d ELSE d) <= f

\* h thousandths is half of m thousandths rounded to the nearest one
NearestHalf(h, m) == 2 * h - m \in {0 - 1, 0, 1}

\* a frequency written with a decimal point: digits, one point, digits
IsDecimal(s) ==
  LET t == Strip(s)
  IN  /\ Cardinality({k \in 1..Len(t) : t[k] = "."}) = 1
      /\ \A k \in 1..Len(t) : IsDigit(t[k]) \/ t[k] = "."
      /\ IsDigit(t[1])
      /\ IsDigit(t[Len(t)])

RECURSIVE Pow10(_)
Pow10(k) == IF k = 0 THEN 1 ELSE 10 * Pow10(k - 1)

\* a frequency that is a number: an integer or a decimal
IsNumber(s) == IsIntLiteral(s) \/ IsDecimal(s)

\* the number as a fraction: Numerator(s) / Denominator(s)
Numerator(s) ==
  IF IsIntLiteral(s) THEN IntValue(s)
  ELSE DigitsValue(SelectSeq(Strip(s), IsDigit), 0)

Denominator(s) ==
  IF IsIntLiteral(s) THEN 1
  ELSE LET t == Strip(s)
       IN  Pow10(Len(t) - (CHOOSE k \in 1..Len(t) : t[k] = "."))

\* m thousandths is 1000000 * den / num thousandths rounded to the nearest one
NearestMilliOf(m, num, den) ==
  LET d == m * num - 1000000 * den
  IN  2 * (IF d < 0 THEN 0 - d ELSE d) <= num

(***************************************************************************)
(* C12, as claimed. For an interface with a defined clock and a positive   *)
(* numeric frequency f in MHz, be it an integer or a decimal, top.sv has a *)
(* clock-generation statement for that clock whose period is 1000/f ns     *)
(* rounded to 3 decimal places and whose toggle delay is half that period  *)
(* rounded to 3 decimal places.                                            *)
(***************************************************************************)
C12_ClockPeriodOfNumber ==
  TopWritten =>
    \A i \in 1..NumIntf :
      LET intf == config.interfaces[i]
      IN  (/\ Defined(intf.clk)
           /\ Lower(intf.speed) # NIL
           /\ IsNumber(intf.speed)
           /\ Numerator(intf.speed) > 0)
          => \E k \in TopAt("  // {clk} clock generation at {speed} MHz (~{period_ns}ns)", i) :
               /\ NearestMilliOf(TopSv[k].n[2], Numerator(intf.speed), Denominator(intf.speed))
               /\ \E j \in TopAt("  always #{half_period} {clk} = ~{clk};\n", i) :
                    NearestHalf(TopSv[j].n[1], TopSv[k].n[2])

(***************************************************************************)
(* C12, amended. For an interface with a defined clock and a frequency     *)
(* that is a positive integer f in MHz, top.sv has one clock-generation    *)
(* statement for that clock whose period is 1000/f ns rounded to 3 decimal *)
(* places and whose toggle delay is half that period rounded to 3 decimal  *)
(* places (numbers in thousandths of a ns: f = 100 gives 10000 and 5000).  *)
(***************************************************************************)
C12_ClockPeriod ==
  TopWritten =>
    \A i \in 1..NumIntf :
      ClockGenerated(i) =>
        LET intf == config.interfaces[i]
            f == IntValue(intf.speed)
            head == TopAt("  // {clk} clock generation at {speed} MHz (~{period_ns}ns)", i)
            toggle == TopAt("  always #{half_period} {clk} = ~{clk};\n", i)
        IN  /\ Cardinality(head) = 1
            /\ Cardinality(toggle) = 1
            /\ \A k \in head :
                 /\ TopSv[k].a[1] = intf.clk
                 /\ TopSv[k].n[1] = f
                 /\ NearestMilli(TopSv[k].n[2], f)
                 /\ \A j \in toggle :
                      /\ TopSv[j].a = <<intf.clk, intf.clk>>
                      /\ NearestHalf(TopSv[j].n[1], TopSv[k].n[2])
                 /\ (f = 100 =>
                       /\ TopSv[k].n[2] = 10000
                       /\ \A j \in toggle : TopSv[j].n[1] = 5000)

\* top.sv was written with a clock at 100 MHz and with a clock whose period
\* is an odd number of thousandths, so that its half is a tie
C12_Witness ==
  /\ TopWritten
  /\ \E i, j \in 1..NumIntf :
       /\ ClockGenerated(i)
       /\ IntValue(config.interfaces[i].speed) = 100
       /\ \E k \in TopAt("  always #{half_period} {clk} = ~{clk};\n", i) :
            TopSv[k].n[1] = 5000
       /\ ClockGenerated(j)
       /\ \E k \in TopAt("  // {clk} clock generation at {speed} MHz (~{period_ns}ns)", j) :
            TopSv[k].n[2] % 2 = 1

\* the input has a NUM_INTF row whose value is no integer
BadNumIntf ==
  \E k \in 1..Len(input) :
    LET cells == NonBlankCells(input[k])
    IN  /\ Len(cells) >= 2
        /\ ReplaceSpace(Upper(Strip(cells[1]))) = KEY_NUM_INTF
        /\ ~IsIntLiteral(cells[2])

(***************************************************************************)
(* C13. When a NUM_INTF row carries a value that is no integer, parsing    *)
(* ends in an error nothing catches: the run never gets past the parse, no *)
(* configuration is produced, and no directory, no artifact file and no    *)
(* summary section is written in that run.                                 *)
(***************************************************************************)
C13_ParseErrorStopsRun ==
  BadNumIntf =>
    /\ pc \in {"parse", "crashed"}
    /\ config = EmptyConfig
    /\ emitted = <<>>
    /\ dirs = {}
    /\ files = <<>>
    /\ readme = <<>>

\* the second run has ended in the error, on an input whose first row is an
\* INTF row the parser had accepted before it met the NUM_INTF row
C13_Witness ==
  /\ BadNumIntf
  /\ pc = "crashed"
  /\ run = 2
  /\ Len(input) = 2
  /\ IsIntfRow(input[1])

(***************************************************************************)
(* What the properties read off the classes and members of a run.          *)
(***************************************************************************)
\* the values of placeholder k in the lines of f-string t, for any interface
AllIds(gen, t, k) == UNION {Ids(gen, t, k, i) : i \in 0..NumIntf}

\* the classes and types the artifacts of this run define
ClassesDefined ==
  AllIds("test", T_TEST_CLASS, 1) \cup AllIds("env", T_ENV_CLASS, 1)
  \cup AllIds("seq", T_SEQ_CLASS, 1) \cup AllIds("agent", T_AGENT_CLASS, 1)
  \cup AllIds("agent", T_COMP_CLASS, 1) \cup AllIds("agent", T_COMP_CLASS_TX, 1)
  \cup AllIds("agent", T_COMP_TYPEDEF, 3)

\* the classes the artifacts of this run refer to: run_test() of top.sv, the
\* handles of the test, of the environment and of the agents
ClassesReferenced ==
  AllIds("top", T_TOP_RUN_TEST, 1)
  \cup AllIds("test", T_TEST_ENV_DECL, 1) \cup AllIds("test", T_TEST_SEQ_CREATE, 1)
  \cup AllIds("env", T_ENV_AGENT_DECL, 1)
  \cup AllIds("agent", T_AGENT_DRV_DECL, 1) \cup AllIds("agent", T_AGENT_SQR_DECL, 1)
  \cup AllIds("agent", T_AGENT_MON_DECL, 1) \cup AllIds("agent", T_AGENT_COV_DECL, 1)

\* the member of the environment that seq.start({env_class}_h.sqr) of the test names
TestSqrMember == <<"s","q","r">>

\* the test of this run starts its sequence on {env_class}_h.sqr
TestStartsOnSqr ==
  \E w \in WritesOf("test") : HasLine(emitted[w].content, "    seq.start({env_class}_h.sqr);")

\* the members the environment declares: its agent handles
EnvMembers == AllIds("env", T_ENV_AGENT_DECL, 2)

\* the members the agent of interface i declares: its component handles
AgentMembers(i) ==
  Ids("agent", T_AGENT_DRV_DECL, 2, i) \cup Ids("agent", T_AGENT_SQR_DECL, 2, i)
  \cup Ids("agent", T_AGENT_MON_DECL, 2, i) \cup Ids("agent", T_AGENT_COV_DECL, 2, i)

\* every member path of one artifact into another names declared members
PathsDeclared ==
  /\ (TestStartsOnSqr => TestSqrMember \in EnvMembers)
  /\ \A i \in 1..NumIntf :
       /\ Ids("env", T_ENV_CONNECT, 1, i) \subseteq EnvMembers
       /\ Ids("env", T_ENV_CONNECT, 2, i) \subseteq AgentMembers(i)

(***************************************************************************)
(* C14. When the run is over, every class or type an artifact refers to    *)
(* (the test named by run_test() in top.sv, the environment and sequence   *)
(* of the test, the agents of the environment, the components of an agent) *)
(* is defined by an artifact of the same run, and every member path of one *)
(* artifact into another (the test's <env>_h.sqr, the environment's path   *)
(* to an agent's analysis port) names a member the target declares.        *)
(***************************************************************************)
C14_NoBrokenReference ==
  pc = "done" =>
    /\ ClassesReferenced \subseteq ClassesDefined
    /\ PathsDeclared

\* the lines of the reset pulse of interface i in top.sv
TopResetPulse(i) ==
  TopAt(T_TOP_RST_ASSERT, i) \cup TopAt("    @(posedge {clk});", i)
  \cup TopAt(T_TOP_RST_DEASSERT, i)

(***************************************************************************)
(* C15. top.sv has a reset assert/deassert pulse for an interface if and   *)
(* only if both its clock and its reset are defined (present and not nil), *)
(* and the pulse waits on the clock of that same interface.                *)
(***************************************************************************)
C15_ResetPulseIffClockAndReset ==
  TopWritten =>
    \A i \in 1..NumIntf :
      LET intf == config.interfaces[i]
      IN  IF Defined(intf.clk) /\ Defined(intf.rst)
          THEN /\ \E k \in TopAt(T_TOP_RST_ASSERT, i) : TopSv[k].a[1] = intf.rst
               /\ \E k \in TopAt(T_TOP_RST_DEASSERT, i) : TopSv[k].a[1] = intf.rst
               /\ \E k \in TopAt("    @(posedge {clk});", i) : TopSv[k].a[1] = intf.clk
               /\ \A k \in TopAt("    @(posedge {clk});", i) : TopSv[k].a[1] = intf.clk
          ELSE TopResetPulse(i) = {}

\* the positions in the README of the lines of f-string t for interface i
ReadmeAt(t, i) == {k \in 1..Len(readme) : readme[k].t = t /\ readme[k].i = i}

\* the reset of an interface is absent: no sixth field, or nil in any case
ResetAbsent(intf) == intf.rst = None \/ Lower(intf.rst) = NIL

(***************************************************************************)
(* C16. For an interface whose reset is absent (no sixth field, or nil in  *)
(* any letter case) the parsed record carries no reset polarity, and       *)
(* neither top.sv nor the summary section of the Top-Level generator has a *)
(* reset line or a polarity for that interface.                            *)
(***************************************************************************)
C16_NoResetNoPolarity ==
  TopWritten =>
    \A i \in 1..NumIntf :
      ResetAbsent(config.interfaces[i]) =>
        /\ config.interfaces[i].rst_type = None
        /\ TopAt("  logic {rst};", i) = {}
        /\ TopAt("  // {rst} reset pulse using @{clk}, active {'high' if active_high else 'low'}", i) = {}
        /\ TopResetPulse(i) = {}
        /\ ReadmeAt("    * {rst}  ({type_str}) driven by {clk}", i) = {}

\* the registration statements of interface i in top.sv
TopRegistrations(i) == TopAt(T_TOP_CONFIG_DB, i)

\* the keys under which top.sv registers interface i
RegKeys(i) == {KEY_VIF_SET : k \in TopRegistrations(i)}

\* the keys with which the driver and the monitor of interface i look up
\* their virtual interface
GetKeys(i) == {KEY_VIF_GET : x \in Ids("agent", T_COMP_VIF_GET, 1, i)}

\* the handle names derived from the name of an interface
HandleNames(intf) == {Lower(intf.name) \o S_pif, Lower(intf.name) \o S_vif}

(***************************************************************************)
(* C17, as claimed. For an interface with a defined name top.sv has        *)
(* exactly one registration statement, its key is the handle name derived  *)
(* from the name of the interface, so that two interfaces with different   *)
(* names have different keys, and the driver and the monitor of the        *)
(* interface look their virtual interface up with that key.                *)
(***************************************************************************)
C17_KeyDerivedFromName ==
  pc = "done" =>
    /\ \A i \in 1..NumIntf :
         Defined(config.interfaces[i].name) =>
           /\ Cardinality(TopRegistrations(i)) = 1
           /\ RegKeys(i) \subseteq HandleNames(config.interfaces[i])
           /\ GetKeys(i) \subseteq RegKeys(i)
    /\ \A i, j \in 1..NumIntf :
         /\ Defined(config.interfaces[i].name)
         /\ Defined(config.interfaces[j].name)
         /\ Lower(config.interfaces[i].name) # Lower(config.interfaces[j].name)
         => RegKeys(i) \cap RegKeys(j) = {}

(***************************************************************************)
(* C17, amended. For an interface with a defined name top.sv has exactly   *)
(* one registration statement; it registers the instance <name>_pif with   *)
(* the interface type <name>_if under the fixed key vif, the same key for  *)
(* every interface, and the driver and the monitor of the interface look   *)
(* their virtual interface up with that type and that key.                 *)
(***************************************************************************)
C17_FixedKeyPerType ==
  pc = "done" =>
    \A i \in 1..NumIntf :
      LET intf == config.interfaces[i]
      IN  Defined(intf.name) =>
            /\ Cardinality(TopRegistrations(i)) = 1
            /\ \A k \in TopRegistrations(i) :
                 TopSv[k].a = <<Lower(intf.name) \o S_if, Lower(intf.name) \o S_pif>>
            /\ RegKeys(i) = {<<"v","i","f">>}
            /\ GetKeys(i) \subseteq RegKeys(i)
            /\ Ids("agent", T_COMP_VIF_GET, 1, i) \subseteq {Lower(intf.name) \o S_if}

\* the run is over for two interfaces of different names, one of them read
\* with a capital; both are registered, and a driver or monitor of each looks
\* its virtual interface up
C17_Witness ==
  /\ pc = "done"
  /\ \E i, j \in 1..NumIntf :
       /\ Lower(config.interfaces[i].name) # Lower(config.interfaces[j].name)
       /\ Lower(config.interfaces[i].name) # config.interfaces[i].name
       /\ TopRegistrations(i) # {}
       /\ TopRegistrations(j) # {}
       /\ GetKeys(i) # {}
       /\ GetKeys(j) # {}

\* the lines of the Top-Level summary section that list the clock, the reset
\* pulse and the instance of interface i
ReadmeClock(i) == ReadmeAt("    * {clk}  ({speed_str})", i)

ReadmeReset(i) == ReadmeAt("    * {rst}  ({type_str}) driven by {clk}", i)

ReadmeIntf(i) == ReadmeAt("    * {name.lower()}_if {name.lower()}_if_inst();", i)

(***************************************************************************)
(* C18. The summary section of the Top-Level generator agrees with top.sv: *)
(* it lists a clock, a reset pulse or an interface instance if and only if *)
(* top.sv has the line for it, and a listed interface instance has the     *)
(* type and the instance name of the instantiation in top.sv.              *)
(***************************************************************************)
C18_SummaryAgreesWithTop ==
  TopWritten =>
    \A i \in 1..NumIntf :
      /\ ReadmeClock(i) # {} <=> TopAt("  logic {clk};", i) # {}
      /\ ReadmeReset(i) # {} <=> TopResetPulse(i) # {}
      /\ ReadmeIntf(i) # {} <=> TopAt(T_TOP_INTF_INST, i) # {}
      /\ \A r \in ReadmeIntf(i) :
           \A k \in TopAt(T_TOP_INTF_INST, i) :
              /\ readme[r].a[1] = TopSv[k].a[1]
              /\ readme[r].a[2] = TopSv[k].a[2]

\* the field of a record that the p-th cell of an INTF row is for
FieldOfCell(rec, p) ==
  IF p = 2 THEN rec.name
  ELSE IF p = 3 THEN rec.mode
  ELSE IF p = 4 THEN rec.speed
  ELSE rec.clk

(***************************************************************************)
(* C19. For every INTF row the parser accepts, the name, mode, frequency   *)
(* and clock of the record are the trimmed 2nd, 3rd, 4th and 5th cells of  *)
(* the row; a blank cell in one of these places leaves that field unset    *)
(* and changes the cell of no other field.                                 *)
(***************************************************************************)
C19_FieldsByCellPosition ==
  After({"dirs", "top", "test", "env", "agent", "seq", "done"}) =>
    LET rows == SelectSeq(input, IsIntfRow)
    IN  /\ NumIntf = Len(rows)
        /\ \A k \in 1..NumIntf :
             \A p \in 2..5 :
               IF NonBlank(rows[k][p])
               THEN FieldOfCell(config.interfaces[k], p) = Strip(rows[k][p])
               ELSE ~Truthy(FieldOfCell(config.interfaces[k], p))

====
